---- MODULE Spec2Model ----
(***************************************************************************)
(* A model of the RAG chatbot orchestration: RAGChatbot (chatbot.py),      *)
(* VectorStoreManager (vector_store.py), LLMHandler (llm_handler.py) and   *)
(* the chunking entry points of DocumentProcessor (document_processor.py). *)
(* The wrapped libraries (PDF loader, splitter, Chroma, the LLM clients)   *)
(* are the environment: each call into them either succeeds or raises, the *)
(* choice being an input of the action that makes the call.                *)
(*                                                                         *)
(* An optional value (Python's None or an object) is a sequence of length  *)
(* at most one: None is << >> and an object x is << x >>.                  *)
(***************************************************************************)
EXTENDS Integers, Sequences, FiniteSets, TLC

VARIABLES
    is_initialized, \* RAGChatbot._is_initialized
    vsm,            \* VectorStoreManager: [vector_store]
    chroma,         \* the persistent collection "pdf_documents" of the Chroma client
    llmh,           \* LLMHandler: [provider, llm, memory, qa_chain]
    config,         \* the Azure settings read from config
    created,        \* number of LLM client objects constructed so far
    call,           \* the last call made on the API and what it returned
    processed,      \* history: a process_pdfs returned True since construction/reset
    exchanges,      \* history: the exchanges of the successful chats since the last clear
    requested,      \* history: the provider string last given to __init__/switch_provider
    proc            \* the script being run (run_app.py, test_setup.py), or none

vars == <<is_initialized, vsm, chroma, llmh, config, created, call, processed,
          exchanges, requested, proc>>

\* the state of the chatbot objects, which the scripts do not touch
chatbot_vars == <<is_initialized, vsm, chroma, llmh, config, created, processed,
                  exchanges, requested>>

\* ---------------------------------------------------------------- bounds
MaxDocs == 3
MaxExchanges == 2
MaxInstances == 2
NumCollectionIds == 3
MaxFiles == 3

\* ---------------------------------------------------------------- constants
RetrieverK == 4

None == << >>
Some(x) == << x >>
IsNone(o) == o = << >>
The(o) == o[1]

UploadPrompt == "Please upload a PDF file first to start chatting."
ChatErrorPrefix == "Sorry, I encountered an error: "
ChainNotInitialized == "QA chain not initialized. Call create_qa_chain first."
NoVectorStore == "No vector store available"
\* texts of the errors raised inside the wrapped libraries
CollectionGone == "Collection does not exist."
LLMFailure == "LLM call failed"
EmbeddingFailure == "embedding failed"
AzureNotConfigured == "Azure OpenAI credentials not configured. Set AZURE_OPENAI_API_KEY and AZURE_OPENAI_ENDPOINT environment variables."
PdfFailure == "could not read PDF"

\* ---------------------------------------------------------------- inputs
Files == {"a.pdf", "b.pdf", "empty.pdf", "bad.pdf"}
Questions == {"q1", "q2"}
Answers == {"yes"}
\* the provider strings given, as code points: "azure", "AzURE", "ollama",
\* "OLLAMA", "azur", "École"
Providers == { <<97,122,117,114,101>>, <<65,122,85,82,69>>,
               <<111,108,108,97,109,97>>, <<79,76,76,65,77,65>>,
               <<97,122,117,114>>, <<201,99,111,108,101>> }

\* what is uploaded: one file object, or a list of file objects
Uploads == { [is_list |-> FALSE, files |-> <<"a.pdf">>],
             [is_list |-> FALSE, files |-> <<"bad.pdf">>],
             [is_list |-> TRUE, files |-> << >>],
             [is_list |-> TRUE, files |-> <<"b.pdf">>],
             [is_list |-> TRUE, files |-> <<"a.pdf", "b.pdf">>],
             [is_list |-> TRUE, files |-> <<"b.pdf", "a.pdf">>],
             [is_list |-> TRUE, files |-> <<"a.pdf", "bad.pdf">>] }

\* the document lists handed to the vector store manager directly
DocumentLists == { <<"a1">>, <<"b1", "b2">> }

\* the provider names the launcher offers for config.LLM_PROVIDER
LauncherProviders == { <<111,108,108,97,109,97>>, <<97,122,117,114,101>> }

\* ---------------------------------------------------------------- str.lower
\* A string is the sequence of its code points. str.lower maps each code point
\* by the table of the interpreter's Unicode database: LowerRanges lists
\* <<first, last, step, delta>>, every step-th code point c of first..last
\* becoming c + delta.
LowerRanges == <<
    <<65,90,1,32>>, <<192,214,1,32>>, <<216,222,1,32>>, <<256,302,2,1>>, <<306,310,2,1>>,
    <<313,327,2,1>>, <<330,374,2,1>>, <<376,376,1,-121>>, <<377,381,2,1>>, <<385,385,1,210>>,
    <<386,388,2,1>>, <<390,390,1,206>>, <<391,391,1,1>>, <<393,394,1,205>>, <<395,395,1,1>>,
    <<398,398,1,79>>, <<399,399,1,202>>, <<400,400,1,203>>, <<401,401,1,1>>, <<403,403,1,205>>,
    <<404,404,1,207>>, <<406,406,1,211>>, <<407,407,1,209>>, <<408,408,1,1>>, <<412,412,1,211>>,
    <<413,413,1,213>>, <<415,415,1,214>>, <<416,420,2,1>>, <<422,422,1,218>>, <<423,423,1,1>>,
    <<425,425,1,218>>, <<428,428,1,1>>, <<430,430,1,218>>, <<431,431,1,1>>, <<433,434,1,217>>,
    <<435,437,2,1>>, <<439,439,1,219>>, <<440,440,1,1>>, <<444,444,1,1>>, <<452,452,1,2>>,
    <<453,453,1,1>>, <<455,455,1,2>>, <<456,456,1,1>>, <<458,458,1,2>>, <<459,475,2,1>>,
    <<478,494,2,1>>, <<497,497,1,2>>, <<498,500,2,1>>, <<502,502,1,-97>>, <<503,503,1,-56>>,
    <<504,542,2,1>>, <<544,544,1,-130>>, <<546,562,2,1>>, <<570,570,1,10795>>, <<571,571,1,1>>,
    <<573,573,1,-163>>, <<574,574,1,10792>>, <<577,577,1,1>>, <<579,579,1,-195>>, <<580,580,1,69>>,
    <<581,581,1,71>>, <<582,590,2,1>>, <<880,882,2,1>>, <<886,886,1,1>>, <<895,895,1,116>>,
    <<902,902,1,38>>, <<904,906,1,37>>, <<908,908,1,64>>, <<910,911,1,63>>, <<913,929,1,32>>,
    <<931,939,1,32>>, <<975,975,1,8>>, <<984,1006,2,1>>, <<1012,1012,1,-60>>, <<1015,1015,1,1>>,
    <<1017,1017,1,-7>>, <<1018,1018,1,1>>, <<1021,1023,1,-130>>, <<1024,1039,1,80>>, <<1040,1071,1,32>>,
    <<1120,1152,2,1>>, <<1162,1214,2,1>>, <<1216,1216,1,15>>, <<1217,1229,2,1>>, <<1232,1326,2,1>>,
    <<1329,1366,1,48>>, <<4256,4293,1,7264>>, <<4295,4295,1,7264>>, <<4301,4301,1,7264>>, <<5024,5103,1,38864>>,
    <<5104,5109,1,8>>, <<7312,7354,1,-3008>>, <<7357,7359,1,-3008>>, <<7680,7828,2,1>>, <<7838,7838,1,-7615>>,
    <<7840,7934,2,1>>, <<7944,7951,1,-8>>, <<7960,7965,1,-8>>, <<7976,7983,1,-8>>, <<7992,7999,1,-8>>,
    <<8008,8013,1,-8>>, <<8025,8031,2,-8>>, <<8040,8047,1,-8>>, <<8072,8079,1,-8>>, <<8088,8095,1,-8>>,
    <<8104,8111,1,-8>>, <<8120,8121,1,-8>>, <<8122,8123,1,-74>>, <<8124,8124,1,-9>>, <<8136,8139,1,-86>>,
    <<8140,8140,1,-9>>, <<8152,8153,1,-8>>, <<8154,8155,1,-100>>, <<8168,8169,1,-8>>, <<8170,8171,1,-112>>,
    <<8172,8172,1,-7>>, <<8184,8185,1,-128>>, <<8186,8187,1,-126>>, <<8188,8188,1,-9>>, <<8486,8486,1,-7517>>,
    <<8490,8490,1,-8383>>, <<8491,8491,1,-8262>>, <<8498,8498,1,28>>, <<8544,8559,1,16>>, <<8579,8579,1,1>>,
    <<9398,9423,1,26>>, <<11264,11311,1,48>>, <<11360,11360,1,1>>, <<11362,11362,1,-10743>>, <<11363,11363,1,-3814>>,
    <<11364,11364,1,-10727>>, <<11367,11371,2,1>>, <<11373,11373,1,-10780>>, <<11374,11374,1,-10749>>, <<11375,11375,1,-10783>>,
    <<11376,11376,1,-10782>>, <<11378,11378,1,1>>, <<11381,11381,1,1>>, <<11390,11391,1,-10815>>, <<11392,11490,2,1>>,
    <<11499,11501,2,1>>, <<11506,11506,1,1>>, <<42560,42604,2,1>>, <<42624,42650,2,1>>, <<42786,42798,2,1>>,
    <<42802,42862,2,1>>, <<42873,42875,2,1>>, <<42877,42877,1,-35332>>, <<42878,42886,2,1>>, <<42891,42891,1,1>>,
    <<42893,42893,1,-42280>>, <<42896,42898,2,1>>, <<42902,42920,2,1>>, <<42922,42922,1,-42308>>, <<42923,42923,1,-42319>>,
    <<42924,42924,1,-42315>>, <<42925,42925,1,-42305>>, <<42926,42926,1,-42308>>, <<42928,42928,1,-42258>>, <<42929,42929,1,-42282>>,
    <<42930,42930,1,-42261>>, <<42931,42931,1,928>>, <<42932,42946,2,1>>, <<42948,42948,1,-48>>, <<42949,42949,1,-42307>>,
    <<42950,42950,1,-35384>>, <<42951,42953,2,1>>, <<42960,42960,1,1>>, <<42966,42968,2,1>>, <<42997,42997,1,1>>,
    <<65313,65338,1,32>>, <<66560,66599,1,40>>, <<66736,66771,1,40>>, <<66928,66964,2,39>>, <<66929,66937,2,39>>,
    <<66941,66953,2,39>>, <<66957,66961,2,39>>, <<66965,66965,1,39>>, <<68736,68786,1,64>>, <<71840,71871,1,32>>,
    <<93760,93791,1,32>>, <<125184,125217,1,34>> >>

\* the code points that are cased and are not case-ignorable
CasedRanges == <<
    <<65,90>>, <<97,122>>, <<170,170>>, <<181,181>>, <<186,186>>, <<192,214>>,
    <<216,246>>, <<248,442>>, <<444,447>>, <<452,659>>, <<661,687>>, <<880,883>>,
    <<886,887>>, <<891,893>>, <<895,895>>, <<902,902>>, <<904,906>>, <<908,908>>,
    <<910,929>>, <<931,1013>>, <<1015,1153>>, <<1162,1327>>, <<1329,1366>>, <<1376,1416>>,
    <<4256,4293>>, <<4295,4295>>, <<4301,4301>>, <<4304,4346>>, <<4349,4351>>, <<5024,5109>>,
    <<5112,5117>>, <<7296,7304>>, <<7312,7354>>, <<7357,7359>>, <<7424,7467>>, <<7531,7543>>,
    <<7545,7578>>, <<7680,7957>>, <<7960,7965>>, <<7968,8005>>, <<8008,8013>>, <<8016,8023>>,
    <<8025,8025>>, <<8027,8027>>, <<8029,8029>>, <<8031,8061>>, <<8064,8116>>, <<8118,8124>>,
    <<8126,8126>>, <<8130,8132>>, <<8134,8140>>, <<8144,8147>>, <<8150,8155>>, <<8160,8172>>,
    <<8178,8180>>, <<8182,8188>>, <<8450,8450>>, <<8455,8455>>, <<8458,8467>>, <<8469,8469>>,
    <<8473,8477>>, <<8484,8484>>, <<8486,8486>>, <<8488,8488>>, <<8490,8493>>, <<8495,8500>>,
    <<8505,8505>>, <<8508,8511>>, <<8517,8521>>, <<8526,8526>>, <<8544,8575>>, <<8579,8580>>,
    <<9398,9449>>, <<11264,11387>>, <<11390,11492>>, <<11499,11502>>, <<11506,11507>>, <<11520,11557>>,
    <<11559,11559>>, <<11565,11565>>, <<42560,42605>>, <<42624,42651>>, <<42786,42863>>, <<42865,42887>>,
    <<42891,42894>>, <<42896,42954>>, <<42960,42961>>, <<42963,42963>>, <<42965,42969>>, <<42997,42998>>,
    <<43002,43002>>, <<43824,43866>>, <<43872,43880>>, <<43888,43967>>, <<64256,64262>>, <<64275,64279>>,
    <<65313,65338>>, <<65345,65370>>, <<66560,66639>>, <<66736,66771>>, <<66776,66811>>, <<66928,66938>>,
    <<66940,66954>>, <<66956,66962>>, <<66964,66965>>, <<66967,66977>>, <<66979,66993>>, <<66995,67001>>,
    <<67003,67004>>, <<68736,68786>>, <<68800,68850>>, <<71840,71903>>, <<93760,93823>>, <<119808,119892>>,
    <<119894,119964>>, <<119966,119967>>, <<119970,119970>>, <<119973,119974>>, <<119977,119980>>, <<119982,119993>>,
    <<119995,119995>>, <<119997,120003>>, <<120005,120069>>, <<120071,120074>>, <<120077,120084>>, <<120086,120092>>,
    <<120094,120121>>, <<120123,120126>>, <<120128,120132>>, <<120134,120134>>, <<120138,120144>>, <<120146,120485>>,
    <<120488,120512>>, <<120514,120538>>, <<120540,120570>>, <<120572,120596>>, <<120598,120628>>, <<120630,120654>>,
    <<120656,120686>>, <<120688,120712>>, <<120714,120744>>, <<120746,120770>>, <<120772,120779>>, <<122624,122633>>,
    <<122635,122654>>, <<125184,125251>>, <<127280,127305>>, <<127312,127337>>, <<127344,127369>> >>

\* the case-ignorable code points
CaseIgnorableRanges == <<
    <<39,39>>, <<46,46>>, <<58,58>>, <<94,94>>, <<96,96>>, <<168,168>>,
    <<173,173>>, <<175,175>>, <<180,180>>, <<183,184>>, <<688,879>>, <<884,885>>,
    <<890,890>>, <<900,901>>, <<903,903>>, <<1155,1161>>, <<1369,1369>>, <<1375,1375>>,
    <<1425,1469>>, <<1471,1471>>, <<1473,1474>>, <<1476,1477>>, <<1479,1479>>, <<1524,1524>>,
    <<1536,1541>>, <<1552,1562>>, <<1564,1564>>, <<1600,1600>>, <<1611,1631>>, <<1648,1648>>,
    <<1750,1757>>, <<1759,1768>>, <<1770,1773>>, <<1807,1807>>, <<1809,1809>>, <<1840,1866>>,
    <<1958,1968>>, <<2027,2037>>, <<2042,2042>>, <<2045,2045>>, <<2070,2093>>, <<2137,2139>>,
    <<2184,2184>>, <<2192,2193>>, <<2200,2207>>, <<2249,2306>>, <<2362,2362>>, <<2364,2364>>,
    <<2369,2376>>, <<2381,2381>>, <<2385,2391>>, <<2402,2403>>, <<2417,2417>>, <<2433,2433>>,
    <<2492,2492>>, <<2497,2500>>, <<2509,2509>>, <<2530,2531>>, <<2558,2558>>, <<2561,2562>>,
    <<2620,2620>>, <<2625,2626>>, <<2631,2632>>, <<2635,2637>>, <<2641,2641>>, <<2672,2673>>,
    <<2677,2677>>, <<2689,2690>>, <<2748,2748>>, <<2753,2757>>, <<2759,2760>>, <<2765,2765>>,
    <<2786,2787>>, <<2810,2815>>, <<2817,2817>>, <<2876,2876>>, <<2879,2879>>, <<2881,2884>>,
    <<2893,2893>>, <<2901,2902>>, <<2914,2915>>, <<2946,2946>>, <<3008,3008>>, <<3021,3021>>,
    <<3072,3072>>, <<3076,3076>>, <<3132,3132>>, <<3134,3136>>, <<3142,3144>>, <<3146,3149>>,
    <<3157,3158>>, <<3170,3171>>, <<3201,3201>>, <<3260,3260>>, <<3263,3263>>, <<3270,3270>>,
    <<3276,3277>>, <<3298,3299>>, <<3328,3329>>, <<3387,3388>>, <<3393,3396>>, <<3405,3405>>,
    <<3426,3427>>, <<3457,3457>>, <<3530,3530>>, <<3538,3540>>, <<3542,3542>>, <<3633,3633>>,
    <<3636,3642>>, <<3654,3662>>, <<3761,3761>>, <<3764,3772>>, <<3782,3782>>, <<3784,3789>>,
    <<3864,3865>>, <<3893,3893>>, <<3895,3895>>, <<3897,3897>>, <<3953,3966>>, <<3968,3972>>,
    <<3974,3975>>, <<3981,3991>>, <<3993,4028>>, <<4038,4038>>, <<4141,4144>>, <<4146,4151>>,
    <<4153,4154>>, <<4157,4158>>, <<4184,4185>>, <<4190,4192>>, <<4209,4212>>, <<4226,4226>>,
    <<4229,4230>>, <<4237,4237>>, <<4253,4253>>, <<4348,4348>>, <<4957,4959>>, <<5906,5908>>,
    <<5938,5939>>, <<5970,5971>>, <<6002,6003>>, <<6068,6069>>, <<6071,6077>>, <<6086,6086>>,
    <<6089,6099>>, <<6103,6103>>, <<6109,6109>>, <<6155,6159>>, <<6211,6211>>, <<6277,6278>>,
    <<6313,6313>>, <<6432,6434>>, <<6439,6440>>, <<6450,6450>>, <<6457,6459>>, <<6679,6680>>,
    <<6683,6683>>, <<6742,6742>>, <<6744,6750>>, <<6752,6752>>, <<6754,6754>>, <<6757,6764>>,
    <<6771,6780>>, <<6783,6783>>, <<6823,6823>>, <<6832,6862>>, <<6912,6915>>, <<6964,6964>>,
    <<6966,6970>>, <<6972,6972>>, <<6978,6978>>, <<7019,7027>>, <<7040,7041>>, <<7074,7077>>,
    <<7080,7081>>, <<7083,7085>>, <<7142,7142>>, <<7144,7145>>, <<7149,7149>>, <<7151,7153>>,
    <<7212,7219>>, <<7222,7223>>, <<7288,7293>>, <<7376,7378>>, <<7380,7392>>, <<7394,7400>>,
    <<7405,7405>>, <<7412,7412>>, <<7416,7417>>, <<7468,7530>>, <<7544,7544>>, <<7579,7679>>,
    <<8125,8125>>, <<8127,8129>>, <<8141,8143>>, <<8157,8159>>, <<8173,8175>>, <<8189,8190>>,
    <<8203,8207>>, <<8216,8217>>, <<8228,8228>>, <<8231,8231>>, <<8234,8238>>, <<8288,8292>>,
    <<8294,8303>>, <<8305,8305>>, <<8319,8319>>, <<8336,8348>>, <<8400,8432>>, <<11388,11389>>,
    <<11503,11505>>, <<11631,11631>>, <<11647,11647>>, <<11744,11775>>, <<11823,11823>>, <<12293,12293>>,
    <<12330,12333>>, <<12337,12341>>, <<12347,12347>>, <<12441,12446>>, <<12540,12542>>, <<40981,40981>>,
    <<42232,42237>>, <<42508,42508>>, <<42607,42610>>, <<42612,42621>>, <<42623,42623>>, <<42652,42655>>,
    <<42736,42737>>, <<42752,42785>>, <<42864,42864>>, <<42888,42890>>, <<42994,42996>>, <<43000,43001>>,
    <<43010,43010>>, <<43014,43014>>, <<43019,43019>>, <<43045,43046>>, <<43052,43052>>, <<43204,43205>>,
    <<43232,43249>>, <<43263,43263>>, <<43302,43309>>, <<43335,43345>>, <<43392,43394>>, <<43443,43443>>,
    <<43446,43449>>, <<43452,43453>>, <<43471,43471>>, <<43493,43494>>, <<43561,43566>>, <<43569,43570>>,
    <<43573,43574>>, <<43587,43587>>, <<43596,43596>>, <<43632,43632>>, <<43644,43644>>, <<43696,43696>>,
    <<43698,43700>>, <<43703,43704>>, <<43710,43711>>, <<43713,43713>>, <<43741,43741>>, <<43756,43757>>,
    <<43763,43764>>, <<43766,43766>>, <<43867,43871>>, <<43881,43883>>, <<44005,44005>>, <<44008,44008>>,
    <<44013,44013>>, <<64286,64286>>, <<64434,64450>>, <<65024,65039>>, <<65043,65043>>, <<65056,65071>>,
    <<65106,65106>>, <<65109,65109>>, <<65279,65279>>, <<65287,65287>>, <<65294,65294>>, <<65306,65306>>,
    <<65342,65342>>, <<65344,65344>>, <<65392,65392>>, <<65438,65439>>, <<65507,65507>>, <<65529,65531>>,
    <<66045,66045>>, <<66272,66272>>, <<66422,66426>>, <<67456,67461>>, <<67463,67504>>, <<67506,67514>>,
    <<68097,68099>>, <<68101,68102>>, <<68108,68111>>, <<68152,68154>>, <<68159,68159>>, <<68325,68326>>,
    <<68900,68903>>, <<69291,69292>>, <<69446,69456>>, <<69506,69509>>, <<69633,69633>>, <<69688,69702>>,
    <<69744,69744>>, <<69747,69748>>, <<69759,69761>>, <<69811,69814>>, <<69817,69818>>, <<69821,69821>>,
    <<69826,69826>>, <<69837,69837>>, <<69888,69890>>, <<69927,69931>>, <<69933,69940>>, <<70003,70003>>,
    <<70016,70017>>, <<70070,70078>>, <<70089,70092>>, <<70095,70095>>, <<70191,70193>>, <<70196,70196>>,
    <<70198,70199>>, <<70206,70206>>, <<70367,70367>>, <<70371,70378>>, <<70400,70401>>, <<70459,70460>>,
    <<70464,70464>>, <<70502,70508>>, <<70512,70516>>, <<70712,70719>>, <<70722,70724>>, <<70726,70726>>,
    <<70750,70750>>, <<70835,70840>>, <<70842,70842>>, <<70847,70848>>, <<70850,70851>>, <<71090,71093>>,
    <<71100,71101>>, <<71103,71104>>, <<71132,71133>>, <<71219,71226>>, <<71229,71229>>, <<71231,71232>>,
    <<71339,71339>>, <<71341,71341>>, <<71344,71349>>, <<71351,71351>>, <<71453,71455>>, <<71458,71461>>,
    <<71463,71467>>, <<71727,71735>>, <<71737,71738>>, <<71995,71996>>, <<71998,71998>>, <<72003,72003>>,
    <<72148,72151>>, <<72154,72155>>, <<72160,72160>>, <<72193,72202>>, <<72243,72248>>, <<72251,72254>>,
    <<72263,72263>>, <<72273,72278>>, <<72281,72283>>, <<72330,72342>>, <<72344,72345>>, <<72752,72758>>,
    <<72760,72765>>, <<72767,72767>>, <<72850,72871>>, <<72874,72880>>, <<72882,72883>>, <<72885,72886>>,
    <<73009,73014>>, <<73018,73018>>, <<73020,73021>>, <<73023,73029>>, <<73031,73031>>, <<73104,73105>>,
    <<73109,73109>>, <<73111,73111>>, <<73459,73460>>, <<78896,78904>>, <<92912,92916>>, <<92976,92982>>,
    <<92992,92995>>, <<94031,94031>>, <<94095,94111>>, <<94176,94177>>, <<94179,94180>>, <<110576,110579>>,
    <<110581,110587>>, <<110589,110590>>, <<113821,113822>>, <<113824,113827>>, <<118528,118573>>, <<118576,118598>>,
    <<119143,119145>>, <<119155,119170>>, <<119173,119179>>, <<119210,119213>>, <<119362,119364>>, <<121344,121398>>,
    <<121403,121452>>, <<121461,121461>>, <<121476,121476>>, <<121499,121503>>, <<121505,121519>>, <<122880,122886>>,
    <<122888,122904>>, <<122907,122913>>, <<122915,122916>>, <<122918,122922>>, <<123184,123197>>, <<123566,123566>>,
    <<123628,123631>>, <<125136,125142>>, <<125252,125259>>, <<127995,127999>>, <<917505,917505>>, <<917536,917631>>,
    <<917760,917999>> >>

CapitalIDot == 304
CapitalSigma == 931
FinalSmallSigma == 962

InRanges(c, ranges) ==
    \E i \in 1..Len(ranges) : ranges[i][1] <= c /\ c <= ranges[i][2]

Cased(c) == InRanges(c, CasedRanges)
CaseIgnorable(c) == InRanges(c, CaseIgnorableRanges)

\* the range of LowerRanges that maps c, if any
LowerRangeOf(c) ==
    { i \in 1..Len(LowerRanges) :
        /\ LowerRanges[i][1] <= c
        /\ c <= LowerRanges[i][2]
        /\ (c - LowerRanges[i][1]) % LowerRanges[i][3] = 0 }

\* str.lower on a one-character string: capital I with dot above becomes
\* two code points, a code point of the table its small letter, any other
\* code point stays
LowerChar(c) ==
    IF c = CapitalIDot THEN <<105, 775>>
    ELSE IF LowerRangeOf(c) # {}
    THEN << c + LowerRanges[CHOOSE i \in LowerRangeOf(c) : TRUE][4] >>
    ELSE << c >>

\* a capital sigma becomes the final small sigma when the nearest code point
\* before it that is not case-ignorable is cased, and the nearest one after
\* it, if there is one, is not
FinalSigma(s, i) ==
    LET before == { j \in 1..(i - 1) : ~CaseIgnorable(s[j]) }
        after == { j \in (i + 1)..Len(s) : ~CaseIgnorable(s[j]) }
    IN  /\ before # {}
        /\ Cased(s[CHOOSE j \in before : \A k \in before : k <= j])
        /\ \/ after = {}
           \/ ~Cased(s[CHOOSE j \in after : \A k \in after : j <= k])

RECURSIVE LowerFrom(_, _)
LowerFrom(s, i) ==
    IF i > Len(s) THEN << >>
    ELSE (IF s[i] = CapitalSigma /\ FinalSigma(s, i) THEN <<FinalSmallSigma>>
          ELSE LowerChar(s[i]))
         \o LowerFrom(s, i + 1)

\* str.lower
Lower(s) == LowerFrom(s, 1)

\* "azure"
Azure == <<97,122,117,114,101>>

\* ---------------------------------------------------------------- DocumentProcessor
\* save_uploaded_file: the file is written under config.PDF_DIR and its
\* path returned
SaveUploadedFile(uploaded_file) == <<"pdfFiles", uploaded_file>>

\* load_pdf: PyPDFLoader on the saved file gives its pages, or raises for a
\* file it cannot read (the error is logged and raised again)
LoadPdf(file_path) ==
    CASE file_path[2] = "a.pdf" -> [raised |-> FALSE, error |-> "", documents |-> <<"a.p1">>]
      [] file_path[2] = "b.pdf" -> [raised |-> FALSE, error |-> "", documents |-> <<"b.p1">>]
      [] file_path[2] = "empty.pdf" -> [raised |-> FALSE, error |-> "", documents |-> << >>]
      [] OTHER -> [raised |-> TRUE, error |-> PdfFailure, documents |-> << >>]

\* the text splitter on one page: a short page is one chunk, a long one two
SplitPage(page) ==
    CASE page = "a.p1" -> <<"a1">>
      [] page = "b.p1" -> <<"b1", "b2">>
      [] OTHER -> << >>

\* split_documents: the chunks of the pages, page after page
RECURSIVE SplitDocuments(_)
SplitDocuments(documents) ==
    IF documents = << >> THEN << >>
    ELSE SplitPage(Head(documents)) \o SplitDocuments(Tail(documents))

\* process_pdf: save, then load, then split; saved is what it wrote to disk
ProcessPdf(uploaded_file) ==
    LET file_path == SaveUploadedFile(uploaded_file)
        loaded == LoadPdf(file_path)
    IN  IF loaded.raised
        THEN [raised |-> TRUE, error |-> loaded.error, chunks |-> << >>,
              saved |-> <<file_path>>]
        ELSE [raised |-> FALSE, error |-> "",
              chunks |-> SplitDocuments(loaded.documents),
              saved |-> <<file_path>>]

RECURSIVE ProcessMultiplePdfsFrom(_, _, _, _)
ProcessMultiplePdfsFromSkipsFailed(uploaded_files, i, all_chunks, saved) ==
    IF i > Len(uploaded_files)
    THEN [raised |-> FALSE, error |-> "", chunks |-> all_chunks, saved |-> saved]
    ELSE LET r == ProcessPdf(uploaded_files[i])
         IN ProcessMultiplePdfsFrom(uploaded_files, i + 1, all_chunks \o r.chunks,
                                    saved \o r.saved)

\* the loop of process_multiple_pdfs from the i-th file on
ProcessMultiplePdfsFrom(uploaded_files, i, all_chunks, saved) ==
    IF i > Len(uploaded_files)
    THEN [raised |-> FALSE, error |-> "", chunks |-> all_chunks, saved |-> saved]
    ELSE LET r == ProcessPdf(uploaded_files[i])
         IN IF r.raised
            THEN [raised |-> TRUE, error |-> r.error, chunks |-> << >>,
                  saved |-> saved \o r.saved]
            ELSE ProcessMultiplePdfsFrom(uploaded_files, i + 1, all_chunks \o r.chunks,
                                         saved \o r.saved)

ProcessMultiplePdfs(uploaded_files) ==
    ProcessMultiplePdfsFrom(uploaded_files, 1, << >>, << >>)

\* the isinstance(uploaded_files, list) branch of process_pdfs / add_pdfs
Chunk(upload) ==
    IF upload.is_list THEN ProcessMultiplePdfs(upload.files)
    ELSE ProcessPdf(upload.files[1])

\* ---------------------------------------------------------------- Chroma
\* The collection is None or one collection [id, docs]; a Chroma store object
\* (and a retriever made from it) refers to its collection by id, so an
\* object made for a collection that was deleted since no longer reaches one.
StoreOutcomes == {"ok", "client_error", "embed_error"}

CollectionIds == 1..NumCollectionIds

\* the id a new collection gets: one that no object in use refers to
FreshId(held) == CHOOSE i \in CollectionIds \ held : \A j \in CollectionIds \ held : i <= j

Live(store_id, db) == ~IsNone(db) /\ The(db).id = store_id

\* chroma_client.delete_collection: raises when there is no such collection
DeleteCollection(db) ==
    IF IsNone(db) THEN [raised |-> TRUE, chroma |-> db]
    ELSE [raised |-> FALSE, chroma |-> None]

\* Chroma.from_documents: creates the collection, embeds and adds the documents
FromDocuments(db, held, documents, outcome) ==
    CASE outcome = "ok" ->
           LET id == FreshId(held)
           IN [raised |-> FALSE, error |-> "", store |-> Some(id),
               chroma |-> Some([id |-> id, docs |-> documents])]
      [] outcome = "embed_error" ->
           [raised |-> TRUE, error |-> EmbeddingFailure, store |-> None,
            chroma |-> IF IsNone(db) THEN Some([id |-> FreshId(held), docs |-> << >>])
                       ELSE db]
      [] OTHER ->
           [raised |-> TRUE, error |-> EmbeddingFailure, store |-> None, chroma |-> db]

\* Chroma.add_documents on a store object
StoreAddDocuments(store_id, db, documents, outcome) ==
    IF ~Live(store_id, db)
    THEN [raised |-> TRUE, error |-> CollectionGone, chroma |-> db]
    ELSE IF outcome # "ok"
    THEN [raised |-> TRUE, error |-> EmbeddingFailure, chroma |-> db]
    ELSE [raised |-> FALSE, error |-> "",
          chroma |-> Some([id |-> store_id, docs |-> The(db).docs \o documents])]

Take(s, k) == IF Len(s) <= k THEN s ELSE SubSeq(s, 1, k)

\* Chroma.similarity_search on a store object: at most k documents
SimilaritySearch(store_id, db, k) ==
    IF ~Live(store_id, db)
    THEN [raised |-> TRUE, error |-> CollectionGone, docs |-> << >>]
    ELSE [raised |-> FALSE, error |-> "", docs |-> Take(The(db).docs, k)]

\* ---------------------------------------------------------------- VectorStoreManager
\* create_vector_store that does not delete the collection first: the new
\* documents land in the collection that is already there
CreateVectorStoreKeepsOld(m, db, held, documents, outcome) ==
    LET kept == IF IsNone(db) THEN << >> ELSE The(db).docs
        made == FromDocuments(db, held, kept \o documents, outcome)
    IN IF made.raised
       THEN [raised |-> TRUE, error |-> made.error, vsm |-> m, chroma |-> made.chroma]
       ELSE [raised |-> FALSE, error |-> "",
             vsm |-> [m EXCEPT !.vector_store = made.store], chroma |-> made.chroma]

CreateVectorStore(m, db, held, documents, outcome) ==
    LET deleted == DeleteCollection(db).chroma
        made == FromDocuments(deleted, held, documents, outcome)
    IN IF made.raised
       THEN [raised |-> TRUE, error |-> made.error, vsm |-> m, chroma |-> made.chroma]
       ELSE [raised |-> FALSE, error |-> "",
             vsm |-> [m EXCEPT !.vector_store = made.store], chroma |-> made.chroma]

\* load_vector_store: None when the client fails or finds no collection,
\* else a store object on the collection that is there, which is kept
LoadVectorStore(m, db, outcome) ==
    IF outcome # "ok" THEN [vsm |-> m, store |-> None]
    ELSE IF IsNone(db) THEN [vsm |-> m, store |-> None]
    ELSE [vsm |-> [m EXCEPT !.vector_store = Some(The(db).id)],
          store |-> Some(The(db).id)]

\* get_vector_store: the store held, or what load_vector_store returns
GetVectorStore(m, db, outcome) ==
    IF IsNone(m.vector_store)
    THEN LET loaded == LoadVectorStore(m, db, outcome)
         IN [vsm |-> [loaded.vsm EXCEPT !.vector_store = loaded.store],
             store |-> loaded.store]
    ELSE [vsm |-> m, store |-> m.vector_store]

\* add_documents that builds a new store whether or not one is held
AddDocumentsReplaces(m, db, held, documents, outcome) ==
    CreateVectorStore(m, db, held, documents, outcome)

AddDocuments(m, db, held, documents, outcome) ==
    IF IsNone(m.vector_store)
    THEN CreateVectorStore(m, db, held, documents, outcome)
    ELSE LET added == StoreAddDocuments(The(m.vector_store), db, documents, outcome)
         IN [raised |-> added.raised, error |-> added.error, vsm |-> m,
             chroma |-> added.chroma]

\* delete_collection with its error swallowed, then the directory emptied
ClearVectorStore(m, db) ==
    [vsm |-> m, chroma |-> None]

Search(m, db, k) ==
    IF IsNone(m.vector_store)
    THEN [raised |-> FALSE, error |-> "", docs |-> << >>]
    ELSE SimilaritySearch(The(m.vector_store), db, k)

GetRetriever(m) ==
    IF IsNone(m.vector_store)
    THEN [raised |-> TRUE, error |-> NoVectorStore, retriever |-> None]
    ELSE [raised |-> FALSE, error |-> "",
          retriever |-> Some([store |-> The(m.vector_store), k |-> RetrieverK])]

\* ---------------------------------------------------------------- LLMHandler
LLMOutcomes == Answers \cup {"error"}

\* _create_ollama_llm: the n-th client object constructed
CreateOllamaLlm(n) ==
    [raised |-> FALSE, error |-> "", llm |-> Some([kind |-> "ollama", id |-> n])]

\* _create_azure_llm: refuses when the key or the endpoint is not configured
CreateAzureLlm(cfg, n) ==
    IF ~cfg.azure_api_key \/ ~cfg.azure_endpoint
    THEN [raised |-> TRUE, error |-> AzureNotConfigured, llm |-> None]
    ELSE [raised |-> FALSE, error |-> "", llm |-> Some([kind |-> "azure", id |-> n])]

\* get_llm that builds a client on every call, cached or not
GetLLMUncached(h, cfg, n) ==
    LET made == IF h.provider = Azure THEN CreateAzureLlm(cfg, n + 1)
                ELSE CreateOllamaLlm(n + 1)
    IN IF made.raised
       THEN [raised |-> TRUE, error |-> made.error, llmh |-> h, created |-> n,
             llm |-> None]
       ELSE [raised |-> FALSE, error |-> "", llmh |-> [h EXCEPT !.llm = made.llm],
             created |-> n + 1, llm |-> made.llm]

GetLLM(h, cfg, n) ==
    IF IsNone(h.llm)
    THEN LET made == IF h.provider = Azure THEN CreateAzureLlm(cfg, n + 1)
                     ELSE CreateOllamaLlm(n + 1)
         IN IF made.raised
            THEN [raised |-> TRUE, error |-> made.error, llmh |-> h, created |-> n,
                  llm |-> None]
            ELSE [raised |-> FALSE, error |-> "", llmh |-> [h EXCEPT !.llm = made.llm],
                  created |-> n + 1, llm |-> made.llm]
    ELSE [raised |-> FALSE, error |-> "", llmh |-> h, created |-> n, llm |-> h.llm]

\* get_memory that makes a new memory object on every call
GetMemoryFresh(h) ==
    [h EXCEPT !.memory = Some([messages |-> << >>])]

GetMemory(h) ==
    IF IsNone(h.memory)
    THEN [h EXCEPT !.memory = Some([messages |-> << >>])]
    ELSE h

\* RetrievalQA.from_chain_type(llm=self.get_llm(), ..., memory=self.get_memory())
CreateQAChain(h, retriever, cfg, n) ==
    LET got == GetLLM(h, cfg, n)
        h2 == GetMemory(got.llmh)
    IN IF got.raised
       THEN [raised |-> TRUE, error |-> got.error, llmh |-> got.llmh, created |-> got.created]
       ELSE [raised |-> FALSE, error |-> "", created |-> got.created,
             llmh |-> [h2 EXCEPT !.qa_chain =
                          Some([llm |-> The(got.llm), retriever |-> retriever])]]

\* generate_response: get_llm, then llm.invoke(prompt) with no retrieval and
\* no memory; an error of either is raised
GenerateResponse(h, cfg, n, outcome) ==
    LET got == GetLLM(h, cfg, n)
    IN IF got.raised
       THEN [raised |-> TRUE, error |-> got.error, llmh |-> got.llmh,
             created |-> got.created, result |-> "", invoked |-> FALSE]
       ELSE IF outcome = "error"
       THEN [raised |-> TRUE, error |-> LLMFailure, llmh |-> got.llmh,
             created |-> got.created, result |-> "", invoked |-> TRUE]
       ELSE [raised |-> FALSE, error |-> "", llmh |-> got.llmh,
             created |-> got.created, result |-> outcome, invoked |-> TRUE]

HumanMessage(text) == [type |-> "human", content |-> text]
AIMessage(text) == [type |-> "ai", content |-> text]

\* memory.save_context: the question and the answer are appended
SaveContext(h, question, answer) ==
    [h EXCEPT !.memory =
        Some([messages |-> The(h.memory).messages \o
                           <<HumanMessage(question), AIMessage(answer)>>])]

NoResponse == [result |-> "", source_documents |-> << >>]

\* query: the chain retrieves, asks the LLM and, when both succeeded, saves
\* the exchange in its memory
Query(h, db, question, outcome) ==
    IF IsNone(h.qa_chain)
    THEN [raised |-> TRUE, error |-> ChainNotInitialized, llmh |-> h,
          response |-> NoResponse, invoked |-> FALSE]
    ELSE LET chain == The(h.qa_chain)
             found == SimilaritySearch(chain.retriever.store, db, chain.retriever.k)
         IN IF found.raised
            THEN [raised |-> TRUE, error |-> found.error, llmh |-> h,
                  response |-> NoResponse, invoked |-> TRUE]
            ELSE IF outcome = "error"
            THEN [raised |-> TRUE, error |-> LLMFailure, llmh |-> h,
                  response |-> NoResponse, invoked |-> TRUE]
            ELSE [raised |-> FALSE, error |-> "",
                  llmh |-> SaveContext(h, question, outcome),
                  response |-> [result |-> outcome, source_documents |-> found.docs],
                  invoked |-> TRUE]

\* clear_memory that also drops the chain built on the memory
ClearMemoryDropsChain(h) ==
    IF ~IsNone(h.memory)
    THEN [h EXCEPT !.memory = Some([messages |-> << >>]), !.qa_chain = None]
    ELSE h

ClearMemory(h) ==
    IF ~IsNone(h.memory)
    THEN [h EXCEPT !.memory = Some([messages |-> << >>])]
    ELSE h

GetConversationHistory(h) ==
    IF IsNone(h.memory) THEN << >> ELSE The(h.memory).messages

\* switch_provider that forgets to drop the chain built on the old LLM
SwitchProviderKeepsChain(h, provider) ==
    [h EXCEPT !.provider = Lower(provider), !.llm = None]

SwitchProvider(h, provider) ==
    [h EXCEPT !.provider = Lower(provider), !.llm = None, !.qa_chain = None]

\* ---------------------------------------------------------------- RAGChatbot
\* process_pdfs and add_pdfs make four calls in turn (chunk the files, store
\* the chunks, get the retriever, create the chain); "steps" is how many of
\* them returned and "error" the text of the exception that was logged.
\* the collection ids that the objects held by the program refer to
Held(m, h) ==
    (IF IsNone(m.vector_store) THEN {} ELSE {The(m.vector_store)}) \cup
    (IF IsNone(h.qa_chain) THEN {} ELSE {The(h.qa_chain).retriever.store})

\* process_pdfs that marks the chatbot ready before the chain is created
ProcessPdfsReadyEarly(init, m, db, h, cfg, n, upload, outcome) ==
    LET chunked == Chunk(upload)
        stored == CreateVectorStore(m, db, Held(m, h), chunked.chunks, outcome)
        got == GetRetriever(stored.vsm)
        chained == CreateQAChain(h, The(got.retriever), cfg, n)
    IN IF chunked.raised
       THEN [ret |-> FALSE, steps |-> 0, error |-> chunked.error,
             is_initialized |-> init, vsm |-> m, chroma |-> db,
             llmh |-> h, created |-> n]
       ELSE IF stored.raised
       THEN [ret |-> FALSE, steps |-> 1, error |-> stored.error,
             is_initialized |-> init, vsm |-> stored.vsm,
             chroma |-> stored.chroma, llmh |-> h, created |-> n]
       ELSE IF got.raised
       THEN [ret |-> FALSE, steps |-> 2, error |-> got.error,
             is_initialized |-> TRUE, vsm |-> stored.vsm,
             chroma |-> stored.chroma, llmh |-> h, created |-> n]
       ELSE IF chained.raised
       THEN [ret |-> FALSE, steps |-> 3, error |-> chained.error,
             is_initialized |-> TRUE, vsm |-> stored.vsm,
             chroma |-> stored.chroma, llmh |-> chained.llmh, created |-> chained.created]
       ELSE [ret |-> TRUE, steps |-> 4, error |-> "",
             is_initialized |-> TRUE, vsm |-> stored.vsm,
             chroma |-> stored.chroma, llmh |-> chained.llmh, created |-> chained.created]

ProcessPdfs(init, m, db, h, cfg, n, upload, outcome) ==
    LET chunked == Chunk(upload)
        stored == CreateVectorStore(m, db, Held(m, h), chunked.chunks, outcome)
        got == GetRetriever(stored.vsm)
        chained == CreateQAChain(h, The(got.retriever), cfg, n)
    IN IF chunked.raised
       THEN [ret |-> FALSE, steps |-> 0, error |-> chunked.error,
             is_initialized |-> init, vsm |-> m, chroma |-> db,
             llmh |-> h, created |-> n]
       ELSE IF stored.raised
       THEN [ret |-> FALSE, steps |-> 1, error |-> stored.error,
             is_initialized |-> init, vsm |-> stored.vsm,
             chroma |-> stored.chroma, llmh |-> h, created |-> n]
       ELSE IF got.raised
       THEN [ret |-> FALSE, steps |-> 2, error |-> got.error,
             is_initialized |-> init, vsm |-> stored.vsm,
             chroma |-> stored.chroma, llmh |-> h, created |-> n]
       ELSE IF chained.raised
       THEN [ret |-> FALSE, steps |-> 3, error |-> chained.error,
             is_initialized |-> init, vsm |-> stored.vsm,
             chroma |-> stored.chroma, llmh |-> chained.llmh, created |-> chained.created]
       ELSE [ret |-> TRUE, steps |-> 4, error |-> "",
             is_initialized |-> TRUE, vsm |-> stored.vsm,
             chroma |-> stored.chroma, llmh |-> chained.llmh, created |-> chained.created]

AddPdfs(init, m, db, h, cfg, n, upload, outcome) ==
    LET chunked == Chunk(upload)
        stored == AddDocuments(m, db, Held(m, h), chunked.chunks, outcome)
        got == GetRetriever(stored.vsm)
        chained == CreateQAChain(h, The(got.retriever), cfg, n)
    IN IF chunked.raised
       THEN [ret |-> FALSE, steps |-> 0, error |-> chunked.error,
             is_initialized |-> init, vsm |-> m, chroma |-> db,
             llmh |-> h, created |-> n]
       ELSE IF stored.raised
       THEN [ret |-> FALSE, steps |-> 1, error |-> stored.error,
             is_initialized |-> init, vsm |-> stored.vsm,
             chroma |-> stored.chroma, llmh |-> h, created |-> n]
       ELSE IF got.raised
       THEN [ret |-> FALSE, steps |-> 2, error |-> got.error,
             is_initialized |-> init, vsm |-> stored.vsm,
             chroma |-> stored.chroma, llmh |-> h, created |-> n]
       ELSE IF chained.raised
       THEN [ret |-> FALSE, steps |-> 3, error |-> chained.error,
             is_initialized |-> init, vsm |-> stored.vsm,
             chroma |-> stored.chroma, llmh |-> chained.llmh, created |-> chained.created]
       ELSE [ret |-> TRUE, steps |-> 4, error |-> "",
             is_initialized |-> init, vsm |-> stored.vsm,
             chroma |-> stored.chroma, llmh |-> chained.llmh, created |-> chained.created]

\* chat that asks the chain without looking at _is_initialized
ChatReplyUnguarded(init, h, db, question, outcome) ==
    LET asked == Query(h, db, question, outcome)
    IN IF asked.raised
       THEN [response |-> [result |-> ChatErrorPrefix \o asked.error,
                           source_documents |-> << >>],
             llmh |-> asked.llmh, invoked |-> asked.invoked, failed |-> TRUE,
             error |-> asked.error]
       ELSE [response |-> asked.response, llmh |-> asked.llmh,
             invoked |-> asked.invoked, failed |-> FALSE, error |-> ""]

\* chat that answers a failed query with the bare text of the error
ChatReplyBareError(init, h, db, question, outcome) ==
    IF ~init
    THEN [response |-> [result |-> UploadPrompt, source_documents |-> << >>],
          llmh |-> h, invoked |-> FALSE, failed |-> FALSE, error |-> ""]
    ELSE LET asked == Query(h, db, question, outcome)
         IN IF asked.raised
            THEN [response |-> [result |-> asked.error, source_documents |-> << >>],
                  llmh |-> asked.llmh, invoked |-> asked.invoked, failed |-> TRUE,
                  error |-> asked.error]
            ELSE [response |-> asked.response, llmh |-> asked.llmh,
                  invoked |-> asked.invoked, failed |-> FALSE, error |-> ""]

ChatReply(init, h, db, question, outcome) ==
    IF ~init
    THEN [response |-> [result |-> UploadPrompt, source_documents |-> << >>],
          llmh |-> h, invoked |-> FALSE, failed |-> FALSE, error |-> ""]
    ELSE LET asked == Query(h, db, question, outcome)
         IN IF asked.raised
            THEN [response |-> [result |-> ChatErrorPrefix \o asked.error,
                                source_documents |-> << >>],
                  llmh |-> asked.llmh, invoked |-> asked.invoked, failed |-> TRUE,
                  error |-> asked.error]
            ELSE [response |-> asked.response, llmh |-> asked.llmh,
                  invoked |-> asked.invoked, failed |-> FALSE, error |-> ""]

ResetChatbot(init, m, db, h) ==
    LET cleared == ClearVectorStore(m, db)
    IN [is_initialized |-> FALSE, vsm |-> cleared.vsm, chroma |-> cleared.chroma,
        llmh |-> ClearMemory(h)]

\* ---------------------------------------------------------------- state machine
\* In the actions the result of the call is bound once, as the one element of
\* a set (\E r \in { ... }), and its fields are then assigned.
Returned(op) ==
    [op |-> op, ok |-> FALSE, raised |-> FALSE, error |-> "", result |-> "",
     docs |-> << >>, invoked |-> FALSE, question |-> "", documents |-> << >>,
     obj |-> None, steps |-> 0, had |-> 0]

NoScript == [program |-> "none"]

\* The objects as constructed, in a process whose persistent directory is empty
\* or holds the collection an earlier run left there
Constructed(providers) ==
    /\ is_initialized = FALSE
    /\ vsm = [vector_store |-> None]
    /\ chroma \in {None, Some([id |-> 1, docs |-> <<"old">>])}
    /\ requested \in providers
    /\ llmh = [provider |-> Lower(requested), llm |-> None, memory |-> None,
               qa_chain |-> None]
    /\ config \in [azure_api_key : BOOLEAN, azure_endpoint : BOOLEAN]
    /\ created = 0
    /\ call = Returned("__init__")
    /\ processed = FALSE
    /\ exchanges = << >>
    /\ proc = NoScript

Init == Constructed(LauncherProviders)

process_pdfs ==
    \E upload \in Uploads, outcome \in StoreOutcomes :
        \E r \in { ProcessPdfs(is_initialized, vsm, chroma, llmh, config, created,
                             upload, outcome) } :
           /\ is_initialized' = r.is_initialized
           /\ vsm' = r.vsm
           /\ chroma' = r.chroma
           /\ llmh' = r.llmh
           /\ created' = r.created
           /\ call' = [Returned("process_pdfs") EXCEPT !.ok = r.ret,
                          !.steps = r.steps, !.error = r.error,
                          !.documents = Chunk(upload).chunks]
           /\ processed' = (processed \/ r.ret)
           /\ UNCHANGED <<proc, config, exchanges, requested>>

add_pdfs ==
    \E upload \in Uploads, outcome \in StoreOutcomes :
        \E r \in { AddPdfs(is_initialized, vsm, chroma, llmh, config, created,
                         upload, outcome) } :
           /\ (IF IsNone(r.chroma) THEN TRUE ELSE Len(The(r.chroma).docs) <= MaxDocs)
           /\ is_initialized' = r.is_initialized
           /\ vsm' = r.vsm
           /\ chroma' = r.chroma
           /\ llmh' = r.llmh
           /\ created' = r.created
           /\ call' = [Returned("add_pdfs") EXCEPT !.ok = r.ret,
                          !.steps = r.steps, !.error = r.error,
                          !.documents = Chunk(upload).chunks]
           /\ UNCHANGED <<proc, config, processed, exchanges, requested>>

chat ==
    \E question \in Questions, outcome \in LLMOutcomes :
        \E r \in { ChatReply(is_initialized, llmh, chroma, question, outcome) } :
           /\ Len(exchanges) < MaxExchanges
           /\ llmh' = r.llmh
           /\ call' = [Returned("chat") EXCEPT !.result = r.response.result,
                          !.docs = r.response.source_documents,
                          !.invoked = r.invoked, !.raised = r.failed,
                          !.error = r.error, !.question = question]
           /\ exchanges' = IF is_initialized /\ ~r.failed
                           THEN Append(exchanges, <<question, r.response.result>>)
                           ELSE exchanges
           /\ UNCHANGED <<proc, is_initialized, vsm, chroma, config, created, processed,
                          requested>>

search_documents ==
    \E r \in { Search(vsm, chroma, RetrieverK) } :
       /\ call' = [Returned("search_documents") EXCEPT !.raised = r.raised,
                      !.error = r.error, !.docs = r.docs]
       /\ UNCHANGED <<proc, is_initialized, vsm, chroma, llmh, config, created, processed,
                      exchanges, requested>>

clear_chat_history ==
    /\ llmh' = ClearMemory(llmh)
    /\ call' = [Returned("clear_chat_history") EXCEPT
                   !.had = Len(GetConversationHistory(llmh))]
    /\ exchanges' = << >>
    /\ UNCHANGED <<proc, is_initialized, vsm, chroma, config, created, processed, requested>>

reset ==
    \E r \in { ResetChatbot(is_initialized, vsm, chroma, llmh) } :
       /\ is_initialized' = r.is_initialized
       /\ vsm' = r.vsm
       /\ chroma' = r.chroma
       /\ llmh' = r.llmh
       /\ call' = [Returned("reset") EXCEPT
                      !.had = Len(GetConversationHistory(llmh))]
       /\ processed' = FALSE
       /\ exchanges' = << >>
       /\ UNCHANGED <<proc, config, created, requested>>

\* vector_store_manager.load_vector_store() on the chatbot's manager
load_vector_store ==
    \E outcome \in {"ok", "client_error"} :
        \E r \in { LoadVectorStore(vsm, chroma, outcome) } :
           /\ vsm' = r.vsm
           /\ call' = [Returned("load_vector_store") EXCEPT !.obj = r.store]
           /\ UNCHANGED <<proc, is_initialized, chroma, llmh, config, created,
                          processed, exchanges, requested>>

\* vector_store_manager.get_vector_store() on the chatbot's manager
get_vector_store ==
    \E outcome \in {"ok", "client_error"} :
        \E r \in { GetVectorStore(vsm, chroma, outcome) } :
           /\ vsm' = r.vsm
           /\ call' = [Returned("get_vector_store") EXCEPT !.obj = r.store]
           /\ UNCHANGED <<proc, is_initialized, chroma, llmh, config, created,
                          processed, exchanges, requested>>

\* vector_store_manager.create_vector_store(documents) on the chatbot's manager
create_vector_store ==
    \E documents \in DocumentLists, outcome \in StoreOutcomes :
        \E r \in { CreateVectorStore(vsm, chroma, Held(vsm, llmh), documents, outcome) } :
           /\ vsm' = r.vsm
           /\ chroma' = r.chroma
           /\ call' = [Returned("create_vector_store") EXCEPT !.raised = r.raised,
                          !.error = r.error, !.documents = documents,
                          !.obj = IF r.raised THEN None ELSE r.vsm.vector_store]
           /\ UNCHANGED <<proc, is_initialized, llmh, config, created, processed,
                          exchanges, requested>>

\* vector_store_manager.add_documents(documents) on the chatbot's manager
add_documents ==
    \E documents \in DocumentLists, outcome \in StoreOutcomes :
        \E r \in { AddDocuments(vsm, chroma, Held(vsm, llmh), documents, outcome) } :
           /\ (IF IsNone(r.chroma) THEN TRUE ELSE Len(The(r.chroma).docs) <= MaxDocs)
           /\ vsm' = r.vsm
           /\ chroma' = r.chroma
           /\ call' = [Returned("add_documents") EXCEPT !.raised = r.raised,
                          !.error = r.error, !.documents = documents]
           /\ UNCHANGED <<proc, is_initialized, llmh, config, created, processed,
                          exchanges, requested>>

\* vector_store_manager.clear_vector_store() on the chatbot's manager
clear_vector_store ==
    \E r \in { ClearVectorStore(vsm, chroma) } :
       /\ vsm' = r.vsm
       /\ chroma' = r.chroma
       /\ call' = Returned("clear_vector_store")
       /\ UNCHANGED <<proc, is_initialized, llmh, config, created, processed,
                      exchanges, requested>>

Next ==
    \/ process_pdfs
    \/ add_pdfs
    \/ chat
    \/ search_documents
    \/ clear_chat_history
    \/ reset
    \/ load_vector_store
    \/ get_vector_store
    \/ create_vector_store
    \/ add_documents
    \/ clear_vector_store

Spec == Init /\ [][Next]_vars

\* ---------------------------------------------------------------- LLMHandler alone
\* LLMHandler(provider) used directly, with retrievers made by the caller
Retrievers == { [store |-> i, k |-> RetrieverK] : i \in {1, 2} }

get_llm ==
    \E r \in { GetLLM(llmh, config, created) } :
       /\ llmh' = r.llmh
       /\ created' = r.created
       /\ call' = [Returned("get_llm") EXCEPT !.raised = r.raised, !.error = r.error,
                      !.obj = r.llm]
       /\ UNCHANGED <<proc, is_initialized, vsm, chroma, config, processed, exchanges,
                      requested>>

create_qa_chain ==
    \E retriever \in Retrievers :
        \E r \in { CreateQAChain(llmh, retriever, config, created) } :
           /\ llmh' = r.llmh
           /\ created' = r.created
           /\ call' = [Returned("create_qa_chain") EXCEPT !.raised = r.raised,
                          !.error = r.error]
           /\ UNCHANGED <<proc, is_initialized, vsm, chroma, config, processed, exchanges,
                          requested>>

query ==
    \E question \in Questions, outcome \in LLMOutcomes :
        \E r \in { Query(llmh, chroma, question, outcome) } :
           /\ Len(GetConversationHistory(llmh)) < 2 * MaxExchanges
           /\ llmh' = r.llmh
           /\ call' = [Returned("query") EXCEPT !.raised = r.raised, !.error = r.error,
                          !.result = r.response.result,
                          !.docs = r.response.source_documents,
                          !.invoked = r.invoked, !.question = question]
           /\ UNCHANGED <<proc, is_initialized, vsm, chroma, config, created, processed,
                          exchanges, requested>>

clear_memory ==
    /\ llmh' = ClearMemory(llmh)
    /\ call' = Returned("clear_memory")
    /\ UNCHANGED <<proc, is_initialized, vsm, chroma, config, created, processed, exchanges,
                   requested>>

switch_provider ==
    \E provider \in Providers :
        /\ created < MaxInstances
        /\ llmh' = SwitchProvider(llmh, provider)
        /\ requested' = provider
        /\ call' = Returned("switch_provider")
        /\ UNCHANGED <<proc, is_initialized, vsm, chroma, config, created, processed,
                       exchanges>>

get_memory ==
    /\ llmh' = GetMemory(llmh)
    /\ call' = [Returned("get_memory") EXCEPT
                   !.had = Len(GetConversationHistory(GetMemory(llmh)))]
    /\ UNCHANGED <<proc, is_initialized, vsm, chroma, config, created, processed,
                   exchanges, requested>>

generate_response ==
    \E outcome \in LLMOutcomes :
        \E r \in { GenerateResponse(llmh, config, created, outcome) } :
           /\ llmh' = r.llmh
           /\ created' = r.created
           /\ call' = [Returned("generate_response") EXCEPT !.raised = r.raised,
                          !.error = r.error, !.result = r.result,
                          !.invoked = r.invoked]
           /\ UNCHANGED <<proc, is_initialized, vsm, chroma, config, processed,
                          exchanges, requested>>

NextLLM ==
    \/ get_llm
    \/ create_qa_chain
    \/ query
    \/ clear_memory
    \/ switch_provider
    \/ get_memory
    \/ generate_response

InitLLM == Constructed(Providers)

SpecLLM == InitLLM /\ [][NextLLM]_vars

\* ---------------------------------------------------------------- run_app.py
\* The launcher as a process: proc.pc is the statement of main() it has
\* reached, proc.args the parsed command line, proc.environ what it has put
\* in os.environ, proc.printed the Ollama status print_config showed,
\* proc.answered the reply to the health check main() made itself,
\* proc.started whether the Streamlit subprocess was started, and proc.exit
\* the exit status once the process has ended.
LauncherArgs ==
    [provider : {"ollama", "azure"}, api_key : {"", "key"},
     endpoint : {"", "https://x.openai.azure.com/"}, check : BOOLEAN]

\* requests.get on the Ollama tags URL: a reply with a status, or an exception
HealthReplies ==
    { [raised |-> FALSE, status_code |-> 200],
      [raised |-> FALSE, status_code |-> 500],
      [raised |-> TRUE, status_code |-> 0] }

ValidateAzureConfig(args) ==
    IF args.api_key = "" THEN FALSE
    ELSE IF args.endpoint = "" THEN FALSE
    ELSE TRUE

\* check_ollama that takes any reply for a running server
CheckOllamaAnyStatus(reply) ==
    ~reply.raised

CheckOllama(reply) ==
    IF reply.raised THEN FALSE ELSE reply.status_code = 200

SetEnvironment(environ, args) ==
    IF args.provider = "ollama"
    THEN [environ EXCEPT !.LLM_PROVIDER = Some(args.provider)]
    ELSE [environ EXCEPT !.LLM_PROVIDER = Some(args.provider),
                         !.AZURE_OPENAI_API_KEY = Some(args.api_key),
                         !.AZURE_OPENAI_ENDPOINT = Some(args.endpoint)]

Exit(p, status) == [p EXCEPT !.pc = "exited", !.exit = Some(status)]

\* main: the Azure validation
MainValidate(p) ==
    IF p.args.provider = "azure" /\ ~ValidateAzureConfig(p.args)
    THEN Exit(p, 1)
    ELSE [p EXCEPT !.pc = "set_environment"]

\* print_config: with the ollama provider it asks the server and shows the status
PrintConfig(p, reply) ==
    IF p.args.provider = "ollama"
    THEN [p EXCEPT !.pc = "check_mode", !.printed = Some(CheckOllama(reply))]
    ELSE [p EXCEPT !.pc = "check_mode"]

\* the --check branch that forgets to exit when the check passed
MainCheckModeFallsThrough(p, reply) ==
    IF p.args.check
    THEN IF p.args.provider = "ollama" /\ ~CheckOllama(reply)
         THEN Exit([p EXCEPT !.answered = Some(reply)], 1)
         ELSE [p EXCEPT !.pc = "check_ollama"]
    ELSE [p EXCEPT !.pc = "check_ollama"]

\* main: the --check branch
MainCheckMode(p, reply) ==
    IF p.args.check
    THEN IF p.args.provider = "ollama"
         THEN IF ~CheckOllama(reply)
              THEN Exit([p EXCEPT !.answered = Some(reply)], 1)
              ELSE Exit([p EXCEPT !.answered = Some(reply)], 0)
         ELSE Exit(p, 0)
    ELSE [p EXCEPT !.pc = "check_ollama"]

\* main: the Ollama check before the launch
MainCheckOllama(p, reply) ==
    IF p.args.provider = "ollama"
    THEN IF ~CheckOllama(reply)
         THEN Exit([p EXCEPT !.answered = Some(reply)], 1)
         ELSE [p EXCEPT !.pc = "launch", !.answered = Some(reply)]
    ELSE [p EXCEPT !.pc = "launch"]

\* main: subprocess.run starts Streamlit and waits for it
MainLaunch(p) == [p EXCEPT !.pc = "streamlit", !.started = TRUE]

\* Streamlit has ended, main returns
MainReturn(p) == Exit(p, 0)

\* a script process constructs no chatbot: its variables stay as they are
NoChatbot ==
    /\ is_initialized = FALSE
    /\ vsm = [vector_store |-> None]
    /\ chroma = None
    /\ requested = <<111,108,108,97,109,97>>
    /\ llmh = [provider |-> Lower(requested), llm |-> None, memory |-> None,
               qa_chain |-> None]
    /\ config = [azure_api_key |-> FALSE, azure_endpoint |-> FALSE]
    /\ created = 0
    /\ call = Returned("__init__")
    /\ processed = FALSE
    /\ exchanges = << >>

\* the launcher has parsed its command line
InitLauncher ==
    /\ NoChatbot
    /\ \E args \in LauncherArgs :
          proc = [program |-> "run_app", pc |-> "validate", args |-> args,
                  environ |-> [LLM_PROVIDER |-> None, AZURE_OPENAI_API_KEY |-> None,
                               AZURE_OPENAI_ENDPOINT |-> None],
                  printed |-> None, answered |-> None, started |-> FALSE,
                  exit |-> None]

main_validate ==
    /\ proc.pc = "validate"
    /\ proc' = MainValidate(proc)
    /\ UNCHANGED <<chatbot_vars, call>>

main_set_environment ==
    /\ proc.pc = "set_environment"
    /\ proc' = [proc EXCEPT !.pc = "print_config",
                            !.environ = SetEnvironment(proc.environ, proc.args)]
    /\ UNCHANGED <<chatbot_vars, call>>

main_print_config ==
    /\ proc.pc = "print_config"
    /\ \E reply \in HealthReplies : proc' = PrintConfig(proc, reply)
    /\ UNCHANGED <<chatbot_vars, call>>

main_check_mode ==
    /\ proc.pc = "check_mode"
    /\ \E reply \in HealthReplies : proc' = MainCheckMode(proc, reply)
    /\ UNCHANGED <<chatbot_vars, call>>

main_check_ollama ==
    /\ proc.pc = "check_ollama"
    /\ \E reply \in HealthReplies : proc' = MainCheckOllama(proc, reply)
    /\ UNCHANGED <<chatbot_vars, call>>

main_launch ==
    /\ proc.pc = "launch"
    /\ proc' = MainLaunch(proc)
    /\ UNCHANGED <<chatbot_vars, call>>

main_return ==
    /\ proc.pc = "streamlit"
    /\ proc' = MainReturn(proc)
    /\ UNCHANGED <<chatbot_vars, call>>

NextLauncher ==
    \/ main_validate
    \/ main_set_environment
    \/ main_print_config
    \/ main_check_mode
    \/ main_check_ollama
    \/ main_launch
    \/ main_return

SpecLauncher == InitLauncher /\ [][NextLauncher]_vars


\* ---------------------------------------------------------------- test_setup.py
\* what the script finds on the machine: what importing the modules does,
\* what answers on port 11434, and which of the two directories exist
SetupDirs == {"pdfFiles", "vectorDB"}
ImportOutcomes == {"ok", "ImportError", "AttributeError"}
OllamaServers == {"models", "no_models", "error_status", "down", "timeout",
                  "not_json", "nameless_model"}
SetupEnvironments == [imports : ImportOutcomes, server : OllamaServers,
                      existing : SUBSET SetupDirs]

\* requests.get(".../api/tags") against the server: the exception it raises,
\* or the status, whether the body is JSON, and the name of each model in it
\* (None for a model entry without a 'name')
GetTags(server) ==
    CASE server = "models" ->
           [error |-> "", status_code |-> 200, is_json |-> TRUE,
            models |-> <<Some("llama3.2:1b")>>]
      [] server = "no_models" ->
           [error |-> "", status_code |-> 200, is_json |-> TRUE, models |-> << >>]
      [] server = "nameless_model" ->
           [error |-> "", status_code |-> 200, is_json |-> TRUE, models |-> <<None>>]
      [] server = "not_json" ->
           [error |-> "", status_code |-> 200, is_json |-> FALSE, models |-> << >>]
      [] server = "error_status" ->
           [error |-> "", status_code |-> 500, is_json |-> TRUE, models |-> << >>]
      [] server = "timeout" ->
           [error |-> "Timeout", status_code |-> 0, is_json |-> FALSE, models |-> << >>]
      [] OTHER ->
           [error |-> "ConnectionError", status_code |-> 0, is_json |-> FALSE,
            models |-> << >>]

CheckReturns(result) == [raised |-> FALSE, error |-> "", result |-> result]
CheckRaises(error) == [raised |-> TRUE, error |-> error, result |-> FALSE]

\* test_imports: True when the imports succeed, False on ImportError; any
\* other exception of an import is not caught
TestImports(imports) ==
    IF imports = "ok" THEN CheckReturns(TRUE)
    ELSE IF imports = "ImportError" THEN CheckReturns(FALSE)
    ELSE CheckRaises(imports)

\* test_ollama: False on ConnectionError and on a status other than 200;
\* on 200 it reads the JSON body and prints each model's name, then True.
\* Another exception of the request, a body that is not JSON and a model
\* without a name raise out of it.
TestOllama(response) ==
    IF response.error = "ConnectionError" THEN CheckReturns(FALSE)
    ELSE IF response.error # "" THEN CheckRaises(response.error)
    ELSE IF response.status_code = 200
    THEN IF ~response.is_json THEN CheckRaises("ValueError")
         ELSE IF \E i \in 1..Len(response.models) : IsNone(response.models[i])
         THEN CheckRaises("KeyError")
         ELSE CheckReturns(TRUE)
    ELSE CheckReturns(FALSE)

\* the number of "will be created on first run" lines test_directories prints
RECURSIVE DirWarnings(_, _)
DirWarnings(dir_names, existing) ==
    IF dir_names = << >> THEN 0
    ELSE (IF Head(dir_names) \in existing THEN 0 ELSE 1)
         + DirWarnings(Tail(dir_names), existing)

\* test_directories: dirs_ok is set to True and never changed by the loop
TestDirectories(existing) == CheckReturns(TRUE)

\* "if not test_x(): all_tests_passed = False"
RunCheck(p, name, result, next_pc) ==
    [p EXCEPT !.pc = next_pc,
              !.results = [@ EXCEPT ![name] = Some(result)],
              !.all_tests_passed = IF ~result THEN FALSE ELSE @]

\* an exception nobody catches: traceback, and the interpreter exits with 1
Uncaught(p, error) ==
    [p EXCEPT !.pc = "exited", !.traceback = Some(error), !.exit = Some(1)]

\* one check called from main
MainCheck(p, name, outcome, next_pc) ==
    IF outcome.raised THEN Uncaught(p, outcome.error)
    ELSE RunCheck(p, name, outcome.result, next_pc)

\* the end of main: sys.exit(1) unless all tests passed; falling off the
\* end of the script is status 0
SetupFinish(p) ==
    IF p.all_tests_passed
    THEN [p EXCEPT !.pc = "exited", !.exit = Some(0)]
    ELSE [p EXCEPT !.pc = "exited", !.exit = Some(1)]

InitSetup ==
    /\ NoChatbot
    /\ \E env \in SetupEnvironments :
          proc = [program |-> "test_setup", pc |-> "test_imports", env |-> env,
                  all_tests_passed |-> TRUE,
                  results |-> [imports |-> None, ollama |-> None,
                               directories |-> None],
                  models_listed |-> 0, warnings |-> 0, traceback |-> None,
                  exit |-> None]

test_imports ==
    /\ proc.pc = "test_imports"
    /\ proc' = MainCheck(proc, "imports", TestImports(proc.env.imports),
                         "test_ollama")
    /\ UNCHANGED <<chatbot_vars, call>>

test_ollama ==
    /\ proc.pc = "test_ollama"
    /\ LET response == GetTags(proc.env.server)
           outcome == TestOllama(response)
           p == MainCheck(proc, "ollama", outcome, "test_directories")
       IN  proc' = [p EXCEPT !.models_listed =
                                IF ~outcome.raised /\ outcome.result
                                THEN Len(response.models) ELSE 0]
    /\ UNCHANGED <<chatbot_vars, call>>

test_directories ==
    /\ proc.pc = "test_directories"
    /\ LET p == MainCheck(proc, "directories",
                          TestDirectories(proc.env.existing), "summary")
       IN  proc' = [p EXCEPT !.warnings =
                                DirWarnings(<<"pdfFiles", "vectorDB">>,
                                            proc.env.existing)]
    /\ UNCHANGED <<chatbot_vars, call>>

setup_finish ==
    /\ proc.pc = "summary"
    /\ proc' = SetupFinish(proc)
    /\ UNCHANGED <<chatbot_vars, call>>

NextSetup ==
    \/ test_imports
    \/ test_ollama
    \/ test_directories
    \/ setup_finish

SpecSetup == InitSetup /\ [][NextSetup]_vars


\* ---------------------------------------------------------------- DocumentProcessor alone
\* the lists of uploaded files handed to process_multiple_pdfs
FileLists == UNION { [1..n -> Files] : n \in 0..MaxFiles }

InitChunks ==
    /\ NoChatbot
    /\ \E uploaded_files \in FileLists :
          proc = [program |-> "document_processor", pc |-> "call",
                  uploaded_files |-> uploaded_files, disk |-> << >>,
                  result |-> None]

\* one call of process_multiple_pdfs on an empty pdfFiles directory
process_multiple_pdfs ==
    /\ proc.pc = "call"
    /\ LET r == ProcessMultiplePdfs(proc.uploaded_files)
       IN  proc' = [proc EXCEPT !.pc = "done",
                                !.disk = r.saved,
                                !.result = Some([raised |-> r.raised,
                                                 error |-> r.error,
                                                 chunks |-> r.chunks])]
    /\ UNCHANGED <<chatbot_vars, call>>

NextChunks == process_multiple_pdfs

SpecChunks == InitChunks /\ [][NextChunks]_vars


\* ---------------------------------------------------------------- properties
\* C1: as long as no process_pdfs has returned True since construction or
\* since the last reset, the chatbot is not ready, and a chat call returns
\* exactly the upload prompt with no source documents, does not invoke the
\* QA chain, and leaves the LLM handler (its conversation history included)
\* as it was.
C1_ChatBeforeProcessing ==
    [][ /\ is_initialized = processed
        /\ (call'.op = "chat" /\ ~processed) =>
              /\ call'.result = "Please upload a PDF file first to start chatting."
              /\ call'.docs = << >>
              /\ ~call'.invoked
              /\ GetConversationHistory(llmh') = GetConversationHistory(llmh)
              /\ llmh' = llmh ]_vars

\* the chain exists (add_pdfs built it) and chat still asks for an upload
C1_Witness ==
    /\ call.op = "chat"
    /\ ~processed
    /\ ~IsNone(llmh.qa_chain)
    /\ call.result = UploadPrompt

\* C2: process_pdfs returns True exactly when all four of its steps returned,
\* and False when one of them raised; a call that returns True leaves the
\* chatbot ready and a call that returns False leaves is_ready as it was.
C2_ProcessPdfsResult ==
    [][ call'.op = "process_pdfs" =>
          /\ ~call'.raised
          /\ call'.ok = (call'.steps = 4)
          /\ call'.ok = (call'.error = "")
          /\ call'.ok => is_initialized'
          /\ ~call'.ok => is_initialized' = is_initialized ]_vars

\* the store was created and the chain could not be: False, and not ready
C2_Witness ==
    /\ call.op = "process_pdfs"
    /\ ~call.ok
    /\ call.steps = 3
    /\ ~IsNone(vsm.vector_store)
    /\ ~is_initialized

\* C3: chat leaves is_ready as it was; when the chatbot is ready and the
\* query raises, the result is the apology followed by the text of the
\* error, with no source documents, and a query on a missing chain is
\* answered that way too.
C3_ChatNeverRaises ==
    [][ call'.op = "chat" =>
          /\ is_initialized' = is_initialized
          /\ (is_initialized /\ call'.raised) =>
                /\ call'.result = "Sorry, I encountered an error: " \o call'.error
                /\ call'.error # ""
                /\ call'.docs = << >>
          /\ (is_initialized /\ ~call'.raised) =>
                /\ call'.result \in Answers
                /\ call'.invoked ]_vars

\* a ready chatbot whose LLM call failed
C3_Witness ==
    /\ call.op = "chat"
    /\ is_initialized
    /\ call.raised
    /\ call.invoked
    /\ call.result = "Sorry, I encountered an error: LLM call failed"

\* the messages that a sequence of question/answer exchanges leaves in memory
RECURSIVE MessagesOf(_)
MessagesOf(pairs) ==
    IF pairs = << >> THEN << >>
    ELSE <<HumanMessage(pairs[1][1]), AIMessage(pairs[1][2])>> \o MessagesOf(Tail(pairs))

\* C4: after reset the chatbot is as freshly constructed: not ready, no
\* conversation history, no persistent collection, no vector store held by
\* the manager (search_documents returns [] and get_retriever raises) and no
\* QA chain held by the LLM handler.
C4_ResetIsFresh ==
    call.op = "reset" =>
        /\ ~is_initialized
        /\ GetConversationHistory(llmh) = << >>
        /\ IsNone(chroma)
        /\ IsNone(vsm.vector_store)
        /\ Search(vsm, chroma, RetrieverK) = [raised |-> FALSE, error |-> "", docs |-> << >>]
        /\ GetRetriever(vsm).raised
        /\ IsNone(llmh.qa_chain)

\* C5: when create_vector_store succeeds (called itself, in process_pdfs, or
\* in add_pdfs / add_documents with no store held), the collection holds
\* exactly the given documents,
\* whatever it held before, the manager holds a new store on that
\* collection, and a search finds the given documents only.
C5_CreateReplacesCollection ==
    [][ ( \/ /\ call'.op = "process_pdfs" \/ (call'.op = "add_pdfs" /\ IsNone(vsm.vector_store))
             /\ call'.steps >= 2
          \/ /\ call'.op = "create_vector_store"
                   \/ (call'.op = "add_documents" /\ IsNone(vsm.vector_store))
             /\ ~call'.raised ) =>
          /\ ~IsNone(chroma')
          /\ The(chroma').docs = call'.documents
          /\ vsm'.vector_store = Some(The(chroma').id)
          /\ vsm'.vector_store # vsm.vector_store
          /\ Search(vsm', chroma', RetrieverK).docs = Take(call'.documents, RetrieverK) ]_vars

\* a second store (the first one held documents) with the chunks of b.pdf only
C5_Witness ==
    /\ call.op = "process_pdfs"
    /\ call.steps >= 2
    /\ vsm.vector_store = Some(2)
    /\ call.documents = <<"b1", "b2">>
    /\ The(chroma).docs = <<"b1", "b2">>

\* C6: when add_documents succeeds with a store held, the collection is the
\* collection before followed by the given documents and the manager keeps
\* its store; with no store held it does what create_vector_store does.
C6_AddDocumentsAppends ==
    [][ ( \/ call'.op = "add_pdfs" /\ call'.steps >= 2
          \/ call'.op = "add_documents" /\ ~call'.raised ) =>
          IF IsNone(vsm.vector_store)
          THEN /\ The(chroma').docs = call'.documents
               /\ chroma' = CreateVectorStore(vsm, chroma, Held(vsm, llmh),
                                              call'.documents, "ok").chroma
               /\ vsm' = CreateVectorStore(vsm, chroma, Held(vsm, llmh),
                                           call'.documents, "ok").vsm
          ELSE /\ ~IsNone(chroma)
               /\ The(chroma').docs = The(chroma).docs \o call'.documents
               /\ The(chroma').id = The(chroma).id
               /\ vsm' = vsm ]_vars

\* the chunks of a.pdf added to a store made from b.pdf
C6_Witness ==
    /\ call.op = "add_pdfs"
    /\ call.steps >= 2
    /\ call.documents = <<"a1">>
    /\ ~IsNone(chroma)
    /\ The(chroma).docs = <<"b1", "b2", "a1">>

\* C7: the conversation history is, at any point, the question/answer
\* exchanges of the chats that succeeded since the last clear_chat_history
\* or reset, in order; re-creating the chain, a failed chat and a chat made
\* while not ready change nothing in it.
C7_HistoryIsSuccessfulChats ==
    GetConversationHistory(llmh) = MessagesOf(exchanges)

\* two exchanges are still there after add_pdfs re-created the chain
C7_Witness ==
    /\ call.op = "add_pdfs"
    /\ call.ok
    /\ Len(exchanges) = 2
    /\ exchanges[1] # exchanges[2]
    /\ Len(GetConversationHistory(llmh)) = 4

\* C8: clear_chat_history empties the conversation history and leaves
\* is_ready, the collection, the manager's store and the QA chain as they
\* were; with no memory created yet it changes nothing and the history is
\* empty before and after.
C8_ClearOnlyHistory ==
    [][ call'.op = "clear_chat_history" =>
          /\ GetConversationHistory(llmh') = << >>
          /\ is_initialized' = is_initialized
          /\ chroma' = chroma
          /\ vsm' = vsm
          /\ llmh'.qa_chain = llmh.qa_chain
          /\ llmh'.llm = llmh.llm
          /\ IsNone(llmh.memory) =>
                (llmh' = llmh /\ GetConversationHistory(llmh) = << >>) ]_vars

\* a ready chatbot that had two exchanges and has none after the call
C8_Witness ==
    /\ call.op = "clear_chat_history"
    /\ call.had = 4
    /\ GetConversationHistory(llmh) = << >>
    /\ is_initialized
    /\ ~IsNone(llmh.qa_chain)
    /\ ~IsNone(chroma)

\* s and t are the same string up to the case of their letters
EqualsIgnoringCase(s, t) ==
    /\ Len(s) = Len(t)
    /\ \A i \in 1..Len(s) : LowerChar(s[i]) = LowerChar(t[i])

\* C9: a get_llm that finds no cached instance builds the Azure client if
\* the provider given to the handler is "azure" in any letter case (and
\* raises, building nothing, when Azure is not configured) and the Ollama
\* client for every other provider; a get_llm that finds a cached instance
\* returns it and builds nothing; and only switch_provider discards the
\* cached instance.
C9_BackendSelection ==
    [][ /\ call'.op = "get_llm" =>
           IF IsNone(llmh.llm)
           THEN IF call'.raised
                THEN /\ EqualsIgnoringCase(requested, Azure)
                     /\ ~config.azure_api_key \/ ~config.azure_endpoint
                     /\ IsNone(llmh'.llm)
                     /\ created' = created
                ELSE /\ ~IsNone(call'.obj)
                     /\ llmh'.llm = call'.obj
                     /\ created' = created + 1
                     /\ The(call'.obj).id = created + 1
                     /\ The(call'.obj).kind =
                           IF EqualsIgnoringCase(requested, Azure) THEN "azure" ELSE "ollama"
           ELSE /\ ~call'.raised
                /\ call'.obj = llmh.llm
                /\ llmh' = llmh
                /\ created' = created
        /\ (~IsNone(llmh.llm) /\ llmh'.llm # llmh.llm) => call'.op = "switch_provider" ]_vars

\* an Azure client built for a provider given in mixed case
C9_Witness ==
    /\ call.op = "get_llm"
    /\ requested = <<65,122,85,82,69>>
    /\ ~IsNone(call.obj)
    /\ The(call.obj).kind = "azure"
    /\ llmh.llm = call.obj

\* C10: switch_provider(p) sets the provider to p in lower case, discards
\* the cached LLM and the QA chain and keeps the memory; while there is no
\* chain a query raises the "QA chain not initialized" error without asking
\* anything, only create_qa_chain makes a chain, and the LLM built next is
\* the one of the new provider.
C10_SwitchProvider ==
    [][ /\ call'.op = "switch_provider" =>
           /\ llmh'.provider = Lower(requested')
           /\ IsNone(llmh'.llm)
           /\ IsNone(llmh'.qa_chain)
           /\ llmh'.memory = llmh.memory
        /\ (call'.op = "query" /\ IsNone(llmh.qa_chain)) =>
           /\ call'.raised
           /\ call'.error = "QA chain not initialized. Call create_qa_chain first."
           /\ ~call'.invoked
           /\ llmh' = llmh
        /\ (IsNone(llmh.qa_chain) /\ ~IsNone(llmh'.qa_chain)) =>
           call'.op = "create_qa_chain"
        /\ (IsNone(llmh.llm) /\ ~IsNone(llmh'.llm)) =>
           The(llmh'.llm).kind = IF llmh.provider = Azure THEN "azure" ELSE "ollama" ]_vars

\* a query refused after a switch: the memory still holds the exchange made
\* with the chain that the switch discarded
C10_Witness ==
    /\ call.op = "query"
    /\ call.raised
    /\ call.error = ChainNotInitialized
    /\ IsNone(llmh.qa_chain)
    /\ Len(GetConversationHistory(llmh)) = 2

\* the reply main() got to its own health check was a 200
AnsweredOk(p) ==
    /\ ~IsNone(p.answered)
    /\ ~The(p.answered).raised
    /\ The(p.answered).status_code = 200

AzureArgsGiven(p) == p.args.api_key # "" /\ p.args.endpoint # ""

\* the cases in which the claim lets Streamlit start
MayStart(p) ==
    /\ ~p.args.check
    /\ \/ p.args.provider = "azure" /\ AzureArgsGiven(p)
       \/ p.args.provider = "ollama" /\ AnsweredOk(p)

\* a --check run that passes
CheckPasses(p) ==
    /\ p.args.check
    /\ \/ p.args.provider = "azure" /\ AzureArgsGiven(p)
       \/ p.args.provider = "ollama" /\ AnsweredOk(p)

\* C11: the launcher starts Streamlit only without --check and with either
\* the azure provider and a non-empty key and endpoint, or the ollama
\* provider and a 200 reply to its health check; a run that ends without
\* having started Streamlit is a run in which it was not allowed to start,
\* and it exits with status 0 for a passing --check and 1 otherwise.
C11_LauncherGuard ==
    /\ proc.started => MayStart(proc)
    /\ proc.pc \in {"launch", "streamlit"} => MayStart(proc)
    /\ (proc.pc = "exited" /\ ~proc.started) =>
          /\ ~MayStart(proc)
          /\ proc.exit = Some(IF CheckPasses(proc) THEN 0 ELSE 1)

\* Streamlit was started for ollama although the status printed before the
\* launch said that the server was not accessible
C11_Witness ==
    /\ proc.program = "run_app"
    /\ proc.started
    /\ proc.args.provider = "ollama"
    /\ proc.printed = Some(FALSE)
    /\ AnsweredOk(proc)

\* C12: with --check the launcher never starts the app; once it has
\* validated and printed the configuration it exits with status 1 when the
\* provider is ollama and the health check did not get a 200, and with
\* status 0 otherwise, and the only exit before that point is the failed
\* Azure validation.
C12_CheckOnly ==
    proc.args.check =>
        /\ ~proc.started
        /\ proc.pc \in {"validate", "set_environment", "print_config", "check_mode",
                        "exited"}
        /\ proc.pc = "exited" =>
              IF IsNone(proc.environ.LLM_PROVIDER)
              THEN /\ proc.exit = Some(1)
                   /\ proc.args.provider = "azure"
                   /\ ~AzureArgsGiven(proc)
              ELSE proc.exit =
                     Some(IF proc.args.provider = "ollama" /\ ~AnsweredOk(proc)
                          THEN 1 ELSE 0)

\* a --check run for ollama: the status printed was "running" and the check
\* made afterwards failed
C12_Witness ==
    /\ proc.program = "run_app"
    /\ proc.args.check
    /\ proc.args.provider = "ollama"
    /\ proc.pc = "exited"
    /\ proc.printed = Some(TRUE)
    /\ proc.exit = Some(1)

\* C13: the setup test runs the import, Ollama and directory checks all
\* three, whatever happened in the earlier ones, and exits with status 1
\* exactly when one of them returned False (status 0 otherwise); the
\* directory check returns True whichever of 'pdfFiles' and 'vectorDB' exist.
C13_SetupTest ==
    /\ ~IsNone(proc.results.directories) =>
          proc.results.directories = Some(TRUE)
    /\ ~IsNone(proc.exit) =>
          /\ \A name \in {"imports", "ollama", "directories"} :
                ~IsNone(proc.results[name])
          /\ proc.exit \in {Some(0), Some(1)}
          /\ proc.exit = Some(1) <=>
                \E name \in {"imports", "ollama", "directories"} :
                    proc.results[name] = Some(FALSE)

\* the chunk lists of the files, one after the other in the order of the list
RECURSIVE ChunksInOrder(_)
ChunksInOrder(files) ==
    IF files = << >> THEN << >>
    ELSE ProcessPdf(Head(files)).chunks \o ChunksInOrder(Tail(files))

\* the positions of the files whose processing raises
Failing(files) == { i \in 1..Len(files) : ProcessPdf(files[i]).raised }

FirstFailing(files) == CHOOSE i \in Failing(files) : \A j \in Failing(files) : i <= j

\* C14: process_multiple_pdfs returns the chunk lists of process_pdf for
\* the files, concatenated in the order of the input list, every file having
\* been saved before it was loaded and split; when the processing of a file
\* raises, the call raises with that error and returns no chunks, the files
\* after it being left untouched; the empty list gives the empty chunk list.
C14_ProcessMultiplePdfs ==
    ~IsNone(proc.result) =>
        LET files == proc.uploaded_files
            r == The(proc.result)
        IN  /\ r.raised <=> Failing(files) # {}
            /\ ~r.raised =>
                  /\ r.chunks = ChunksInOrder(files)
                  /\ proc.disk = [i \in 1..Len(files) |-> SaveUploadedFile(files[i])]
            /\ r.raised =>
                  /\ r.chunks = << >>
                  /\ r.error = ProcessPdf(files[FirstFailing(files)]).error
                  /\ proc.disk = [i \in 1..FirstFailing(files) |->
                                     SaveUploadedFile(files[i])]
            /\ files = << >> => (~r.raised /\ r.chunks = << >>)

\* three files, the middle one without text: the chunks come in list order
C14_Witness ==
    /\ proc.program = "document_processor"
    /\ proc.uploaded_files = <<"b.pdf", "empty.pdf", "a.pdf">>
    /\ proc.result = Some([raised |-> FALSE, error |-> "",
                           chunks |-> <<"b1", "b2", "a1">>])
    /\ Len(proc.disk) = 3

====
